---- MODULE Spec2Model ----
(***************************************************************************)
(* A model of the tennis court booking scheduler (src/tennis/scheduler.py) *)
(* with its collaborators (payments.py, responses.py).                     *)
(*                                                                         *)
(* Time is counted in whole hours since midnight of day 0; a calendar date *)
(* is a day number.  Wall-clock times of slots and of the request are      *)
(* minutes since midnight.  Money is an integer amount.                    *)
(***************************************************************************)
EXTENDS Integers, Sequences, FiniteSets

VARIABLES
    pc,                          \* position of the flow (see PcValues)
    now,                         \* the clock read by current_datetime, in hours
    booking_date,                \* TennisScheduler.booking_date (day number)
    target_start_time,           \* TennisScheduler.target_start_time (minutes)
    target_end_time,             \* TennisScheduler.target_end_time (minutes)
    include_paid_lighting_slots, \* TennisScheduler.include_paid_lighting_slots
    exclude_one_hour_slots,      \* TennisScheduler.exclude_one_hour_slots
    response,                    \* the fetched document (self.response), a sequence of entries
    slots,                       \* book(): the local `slots`
    ranked_slots,                \* book(): the local `ranked_slots`, consumed by the loop
    confirmation,                \* book(): the local `confirmation` (None or Some)
    ranking,                     \* history: the list as _rank_slots returned it
    attempts,                    \* history: the calls of request_booking, in order
    auths,                       \* history: the calls of Payment.authorize, in order
    fetches,                     \* history: number of GETs issued
    http_status,                 \* history: status code of the response (0: none yet)
    constructed_on,              \* history: the day __post_init__ ran (-1: not yet)
    slept                        \* history: the gate has slept at least once

vars == <<pc, now, booking_date, target_start_time, target_end_time,
          include_paid_lighting_slots, exclude_one_hour_slots, response,
          slots, ranked_slots, confirmation, ranking, attempts, auths,
          fetches, http_status, constructed_on, slept>>

-----------------------------------------------------------------------------
(* Bounds of the model.                                                    *)

\* Largest number of session entries in a fetched document.
MaxSessions == 2

-----------------------------------------------------------------------------
(* Program constants.                                                      *)

HoursPerDay == 24

MinutesPerHour == 60

\* LOCAL_TIME_BOOKINGS_OPEN = dt.time(9, 00)
LOCAL_TIME_BOOKINGS_OPEN == 9

\* dt.timedelta(days=14) of max_booking_date and of _wait_for_opening_time
HorizonDays == 14

\* two_hours = 2.0 of is_double_slot
two_hours == 2

\* CourtLocation.LYLE, the default location
LYLE == "lyle"

\* Python's None, and a present value, for `BookingConfirmation | None`.
None == <<>>

Some(x) == <<x>>

-----------------------------------------------------------------------------
(* The inputs the environment draws from.                                  *)

\* The instants at which the caller builds the request: 08:00 and 10:00 of
\* day 0, before and after the hour at which bookings open.  Time may pass
\* before __post_init__ runs, up to the opening instant of the requested date,
\* which for the later date lies on day 1.
StartInstants == {8, 10}

\* Requested booking dates: within the horizon of day 0, and one day beyond it.
BookingDates == {14, 15}

\* Requested <<target_start_time, target_end_time>>: 10:00-12:00 and 10:30-12:00.
TargetTimes == {<<600, 720>>, <<630, 720>>}

\* <<StartTime, EndTime>> of a session in minutes from midnight:
\* 10-11, 10-12, 11-13, 09-12.
SessionTimes == {<<600, 660>>, <<600, 720>>, <<660, 780>>, <<540, 720>>}

\* <<Capacity, MemberPrice, LightingCost>> of a session: open, free, unlit;
\* open, paid, unlit; open, paid, paid lighting; closed, free, paid lighting.
SessionOffers == {<<1, 0, 0>>, <<1, 5, 0>>, <<1, 5, 3>>, <<0, 0, 3>>}

\* Session entries of the venue's document: the two-hour sessions come with
\* every offer, the one-hour and the three-hour sessions open and unlit.
\* HasKeys = FALSE stands for an entry in which a key read by the parser is
\* absent; StartTime = 1440 is an entry whose hour is not a valid hour of the
\* day.
GoodSessions ==
    { s \in { [HasKeys |-> TRUE, StartTime |-> t[1], EndTime |-> t[2],
               Capacity |-> o[1], MemberPrice |-> o[2], LightingCost |-> o[3]] :
                t \in SessionTimes, o \in SessionOffers } :
        s.EndTime - s.StartTime = 120 \/ (s.Capacity # 0 /\ s.LightingCost = 0) }

BadSessions ==
    { [HasKeys |-> FALSE, StartTime |-> 600, EndTime |-> 720, Capacity |-> 1,
       MemberPrice |-> 0, LightingCost |-> 0],
      [HasKeys |-> TRUE, StartTime |-> 1440, EndTime |-> 720, Capacity |-> 1,
       MemberPrice |-> 0, LightingCost |-> 0] }

SessionPool == GoodSessions \cup BadSessions

\* The two-hour sessions that pass every filter: open, no lighting cost.
CoreSessions ==
    { s \in GoodSessions :
        s.Capacity # 0 /\ s.LightingCost = 0 /\ s.EndTime - s.StartTime = 120 }

\* <<StartTime, EndTime>> of sessions that do not start and end on the hour:
\* 10:45-12:45, and 10:00-10:30.
SubHourTimes == {<<645, 765>>, <<600, 630>>}

\* Open, free, unlit sessions at those times.
SubHourSessions ==
    { [HasKeys |-> TRUE, StartTime |-> t[1], EndTime |-> t[2], Capacity |-> 1,
       MemberPrice |-> 0, LightingCost |-> 0] : t \in SubHourTimes }

\* HTTP status codes the GET may answer with.
StatusCodes == {200, 404, 500, 302}

\* What Payment.authorize may answer: a PaymentResult, or an exception.
PaymentOutcomes == {"OK", "Declined", "raise"}

SeqsUpTo(S, n) == UNION { [1..k -> S] : k \in 0..n }

\* The documents: one court per entry, courts numbered from 0 in document
\* order, one day (the requested one) per court, one session per day.  Up to
\* MaxSessions entries of any kind, or of core and sub-hour sessions, or one
\* more entry when all of them are core sessions.
Documents(date) ==
    { [i \in 1..Len(ss) |-> [Number |-> i - 1, Date |-> date, Session |-> ss[i]]] :
        ss \in SeqsUpTo(SessionPool, MaxSessions)
                \cup SeqsUpTo(CoreSessions \cup SubHourSessions, MaxSessions)
                \cup [1..(MaxSessions + 1) -> CoreSessions] }

-----------------------------------------------------------------------------
(* Slot Model: BookingSlot and its properties.                             *)

Abs(x) == IF x < 0 THEN -x ELSE x

Min(a, b) == IF a < b THEN a ELSE b

\* (end_datetime - start_datetime).seconds // 3600: timedelta.seconds is the
\* non-negative remainder within one day.
duration(slot) ==
    ((slot.end_time - slot.start_time) % (HoursPerDay * MinutesPerHour)) \div MinutesPerHour

\* A double slot test that lets one-hour slots pass.
is_double_slot_one_hour(slot) == duration(slot) >= 1

is_double_slot(slot) == duration(slot) >= two_hours

\* The property as its name reads: true of a slot whose lighting costs.
is_paid_lighting_nonzero(slot) == slot.lighting_cost # 0

\* return self.lighting_cost == 0
is_paid_lighting(slot) == slot.lighting_cost = 0

\* round(abs(seconds / 3600), 2), in hundredths of an hour.  A whole number of
\* minutes is never half way between two hundredths, so the rounding is exact.
distance_from_target_time(slot, target_time) ==
    (Abs(slot.start_time - target_time) * 100 + 30) \div MinutesPerHour

is_available_for_times(slot, start_time, end_time) ==
    start_time >= slot.start_time /\ end_time <= slot.end_time

\* A confirmation whose length is not capped.
BookingConfirmation_uncapped(slot) ==
    [location |-> slot.location,
     court_number |-> slot.court_number,
     booking_date |-> slot.date,
     booking_time |-> slot.start_time,
     length_in_hours |-> duration(slot)]

BookingConfirmation(slot) ==
    [location |-> slot.location,
     court_number |-> slot.court_number,
     booking_date |-> slot.date,
     booking_time |-> slot.start_time,
     length_in_hours |-> Min(2, duration(slot))]

\* `if self.cost:` guards the payment.
needs_payment(slot) == slot.cost # 0

\* A request that forgets to look at what the payment answered.
request_unchecked_payment(slot, start_time, end_time, outcome) ==
    IF ~is_available_for_times(slot, start_time, end_time) THEN None
    ELSE Some(BookingConfirmation(slot))

\* A request that takes the payment and only then refuses a slot whose
\* lighting costs.
request_refuses_after_payment(slot, start_time, end_time, outcome) ==
    IF ~is_available_for_times(slot, start_time, end_time) THEN None
    ELSE IF needs_payment(slot) /\ outcome # "OK" THEN None
    ELSE IF slot.lighting_cost # 0 THEN None
    ELSE Some(BookingConfirmation(slot))

\* BookingSlot.request: the confirmation, or None where the code raises.
request(slot, start_time, end_time, outcome) ==
    IF ~is_available_for_times(slot, start_time, end_time) THEN None
    ELSE IF needs_payment(slot) /\ outcome # "OK" THEN None
    ELSE Some(BookingConfirmation(slot))

\* A request that charges before it has tested the window.
authorizes_before_window(slot, start_time, end_time) == needs_payment(slot)

\* Whether BookingSlot.request reaches Payment(...).authorize().
authorizes(slot, start_time, end_time) ==
    is_available_for_times(slot, start_time, end_time) /\ needs_payment(slot)

\* What BookingSlot.request raises: nothing, the RuntimeError of the window
\* test or of a payment that is not Ok, or the collaborator's own exception.
raised(slot, start_time, end_time, outcome) ==
    IF ~is_available_for_times(slot, start_time, end_time) THEN "RuntimeError"
    ELSE IF needs_payment(slot) /\ outcome = "raise" THEN "Exception"
    ELSE IF needs_payment(slot) /\ outcome # "OK" THEN "RuntimeError"
    ELSE "none"

-----------------------------------------------------------------------------
(* Python's sorted(): a stable sort by an integer key, ascending, or       *)
(* descending with reverse=True (which keeps equal keys in input order).   *)
(* key[i] is the key of s[i].                                              *)

\* A descending sort made by reversing the ascending one: with reverse, equal
\* keys come out in reverse input order.
sorted_then_reversed(s, key, reverse) ==
    LET n == Len(s)
        Before(i, j) ==
            \/ IF reverse THEN key[i] > key[j] ELSE key[i] < key[j]
            \/ key[i] = key[j] /\ IF reverse THEN i > j ELSE i < j
        Pos(i) == 1 + Cardinality({j \in 1..n : Before(j, i)})
    IN  [p \in 1..n |-> s[CHOOSE i \in 1..n : Pos(i) = p]]

sorted(s, key, reverse) ==
    LET n == Len(s)
        Before(i, j) ==
            \/ IF reverse THEN key[i] > key[j] ELSE key[i] < key[j]
            \/ key[i] = key[j] /\ i < j
        Pos(i) == 1 + Cardinality({j \in 1..n : Before(j, i)})
    IN  [p \in 1..n |-> s[CHOOSE i \in 1..n : Pos(i) = p]]

-----------------------------------------------------------------------------
(* Slot Catalog Builder.                                                   *)

\* A status test that takes a redirection for a success.
from_status_code_redirect_ok(status_code) ==
    IF status_code \div 100 \in {2, 3} THEN "OK"
    ELSE IF status_code \div 100 = 4 THEN "Bad Request"
    ELSE "Internal Server Error"

\* from_status_code: the status of the response; by hundreds 2 is Ok, 4 and 5
\* are errors, any other raises ValueError.
from_status_code(status_code) ==
    IF status_code \div 100 = 2 THEN "OK"
    ELSE IF status_code \div 100 = 4 THEN "Bad Request"
    ELSE IF status_code \div 100 = 5 THEN "Internal Server Error"
    ELSE "ValueError"

\* A parser that only looks for the keys.
parses_keys_only(entry) == entry.Session.HasKeys

\* The try block of _get_slots passes: the keys are there and dt.time accepts
\* the hours.
parses(entry) ==
    /\ entry.Session.HasKeys
    /\ entry.Session.StartTime \div MinutesPerHour \in 0..(HoursPerDay - 1)
    /\ entry.Session.EndTime \div MinutesPerHour \in 0..(HoursPerDay - 1)

\* A builder that rounds the offsets to the nearest hour.
BookingSlot_rounded(entry) ==
    [location |-> LYLE,
     court_number |-> entry.Number + 1,
     date |-> entry.Date,
     start_time |->
        ((entry.Session.StartTime + 30) \div MinutesPerHour) * MinutesPerHour,
     end_time |->
        ((entry.Session.EndTime + 30) \div MinutesPerHour) * MinutesPerHour,
     is_open |-> entry.Session.Capacity # 0,
     cost |-> entry.Session.MemberPrice,
     lighting_cost |-> entry.Session.LightingCost]

\* The BookingSlot yielded for an entry that parses.
BookingSlot(entry) ==
    [location |-> LYLE,
     court_number |-> entry.Number + 1,
     date |-> entry.Date,
     start_time |-> (entry.Session.StartTime \div MinutesPerHour) * MinutesPerHour,
     end_time |-> (entry.Session.EndTime \div MinutesPerHour) * MinutesPerHour,
     is_open |-> entry.Session.Capacity # 0,
     cost |-> entry.Session.MemberPrice,
     lighting_cost |-> entry.Session.LightingCost]

get_slots(document) ==
    LET parsed == SelectSeq(document, parses)
    IN  [i \in 1..Len(parsed) |-> BookingSlot(parsed[i])]

-----------------------------------------------------------------------------
(* Filter Pipeline.                                                        *)

is_open(slot) == slot.is_open

\* A filter that returns what it keeps last slot first.
filter_slots_reversed(sl, include_paid_lighting, exclude_one_hour) ==
    LET filtered_slots ==
            IF ~include_paid_lighting THEN SelectSeq(sl, is_paid_lighting) ELSE sl
        kept ==
            IF exclude_one_hour THEN SelectSeq(filtered_slots, is_double_slot)
            ELSE filtered_slots
    IN  [i \in 1..Len(kept) |-> kept[Len(kept) + 1 - i]]

filter_slots(sl, include_paid_lighting, exclude_one_hour) ==
    LET filtered_slots ==
            IF ~include_paid_lighting THEN SelectSeq(sl, is_paid_lighting) ELSE sl
    IN  IF exclude_one_hour THEN SelectSeq(filtered_slots, is_double_slot)
        ELSE filtered_slots

\* A collection that forgets the is_open test.
open_slots_all(document) == get_slots(document)

\* _collect_slots up to its emptiness test: the open slots, filtered.
open_slots(document) == SelectSeq(get_slots(document), is_open)

collected(document, include_paid_lighting, exclude_one_hour) ==
    filter_slots(open_slots(document), include_paid_lighting, exclude_one_hour)

\* A collection that never raises.
none_left_never(filtered_slots) == FALSE

\* `if not filtered_slots:` raises.
none_left(filtered_slots) == filtered_slots = <<>>

-----------------------------------------------------------------------------
(* Ranking Algorithm.                                                      *)

\* A ranking that keeps the double slots only.
rank_slots_double_only(sl, target_time) ==
    LET doubles == SelectSeq(sl, is_double_slot)
        proximity ==
            [i \in 1..Len(doubles) |-> distance_from_target_time(doubles[i], target_time)]
        slots_ranked_by_proximity == sorted(doubles, proximity, FALSE)
        durations ==
            [i \in 1..Len(doubles) |-> duration(slots_ranked_by_proximity[i])]
    IN  sorted(slots_ranked_by_proximity, durations, TRUE)

rank_slots(sl, target_time) ==
    LET proximity == [i \in 1..Len(sl) |-> distance_from_target_time(sl[i], target_time)]
        slots_ranked_by_proximity == sorted(sl, proximity, FALSE)
        durations ==
            [i \in 1..Len(sl) |-> duration(slots_ranked_by_proximity[i])]
    IN  sorted(slots_ranked_by_proximity, durations, TRUE)

-----------------------------------------------------------------------------
(* Opening-Time Gate and horizon.                                          *)

\* current_datetime.date()
today == now \div HoursPerDay

\* A horizon that forgets the current date.
max_booking_date_fixed == HorizonDays

\* A horizon that reaches one day too far.
max_booking_date_one_more == today + HorizonDays + 1

max_booking_date == today + HorizonDays

\* dt.datetime.combine(booking_date - 14 days, LOCAL_TIME_BOOKINGS_OPEN)
booking_open_datetime(date) ==
    (date - HorizonDays) * HoursPerDay + LOCAL_TIME_BOOKINGS_OPEN

\* A gate that compares the dates and forgets the opening hour.
not_yet_open_by_date == today < booking_date - HorizonDays

\* A gate that still waits at the opening instant itself.
not_yet_open_inclusive == now <= booking_open_datetime(booking_date)

\* The condition of the gate's while loop.
not_yet_open == now < booking_open_datetime(booking_date)

-----------------------------------------------------------------------------
(* Booking Attempt Loop.                                                   *)

\* A loop that takes its candidate from the wrong end of the list.
first_candidate_last(rs) == rs[Len(rs)]

\* ranked_slots[0]
first_candidate(rs) == rs[1]

\* A loop that forgets to drop the candidate it has tried.
pop_first_keeps(rs) == rs

\* ranked_slots.pop(0)
pop_first(rs) == Tail(rs)

\* An except clause that names RuntimeError only.
caught_runtime_only(exception) == exception = "RuntimeError"

\* `except Exception:` of request_booking catches whatever request raises.
caught(exception) == TRUE

\* request_booking: slot.request, with any exception turned into None.
request_booking(slot, outcome) ==
    request(slot, target_start_time, target_end_time, outcome)

\* A loop that goes on whatever the attempt returned.
keeps_trying_always(conf) == TRUE

\* The while condition of book(): go on while the confirmation is None.
keeps_trying(conf) == conf = None

\* A loop that gives up with one candidate still untried.
exhausted_early(rs) == Len(rs) <= 1

\* `if not ranked_slots: break`
exhausted(rs) == rs = <<>>

-----------------------------------------------------------------------------
(* The state machine.                                                      *)

PcValues ==
    {"New", "InvalidRequest", "Constructed", "Waiting", "Collecting",
     "TransportFailure", "NoSlotsAvailable", "Ranking", "Attempting",
     "Confirmed", "BookingFailed", "AttemptError"}

Terminal ==
    {"InvalidRequest", "TransportFailure", "NoSlotsAvailable", "Confirmed",
     "BookingFailed"}

Config == <<booking_date, target_start_time, target_end_time,
            include_paid_lighting_slots, exclude_one_hour_slots>>

History ==
    <<ranking, attempts, auths, fetches, http_status, constructed_on, slept>>

Locals == <<response, slots, ranked_slots, confirmation>>

\* The dataclass fields as the caller passed them, before __post_init__.
Init ==
    /\ pc = "New"
    /\ now \in StartInstants
    /\ booking_date \in BookingDates
    /\ \E t \in TargetTimes : target_start_time = t[1] /\ target_end_time = t[2]
    /\ include_paid_lighting_slots \in BOOLEAN
    /\ exclude_one_hour_slots \in BOOLEAN
    /\ response = <<>>
    /\ slots = <<>>
    /\ ranked_slots = <<>>
    /\ confirmation = None
    /\ ranking = <<>>
    /\ attempts = <<>>
    /\ auths = <<>>
    /\ fetches = 0
    /\ http_status = 0
    /\ constructed_on = -1
    /\ slept = FALSE

\* Time passes.  The clock is read by __post_init__ and by the gate only, and
\* the gate no longer reads it once the opening instant is reached: the model
\* lets time pass until then.  Inside the gate the loop condition is
\* evaluated on entry, and time passes while the flow sleeps.
Tick ==
    /\ pc \in {"New", "Constructed"} \/ (pc = "Waiting" /\ slept)
    /\ now < booking_open_datetime(booking_date)
    /\ now' = now + 1
    /\ UNCHANGED <<pc, Config, Locals, History>>

\* __post_init__: the horizon check.
post_init ==
    /\ pc = "New"
    /\ pc' = IF booking_date > max_booking_date THEN "InvalidRequest" ELSE "Constructed"
    /\ constructed_on' = today
    /\ UNCHANGED <<now, Config, Locals, ranking, attempts, auths, fetches,
                   http_status, slept>>

\* book() is called and enters _wait_for_opening_time.
book ==
    /\ pc = "Constructed"
    /\ pc' = "Waiting"
    /\ UNCHANGED <<now, Config, Locals, History>>

\* One iteration of the gate's loop: the condition holds, the flow sleeps.
wait_sleep ==
    /\ pc = "Waiting"
    /\ not_yet_open
    /\ slept' = TRUE
    /\ UNCHANGED <<pc, now, Config, Locals, ranking, attempts, auths, fetches,
                   http_status, constructed_on>>

\* The gate's loop condition fails: _wait_for_opening_time returns.
wait_return ==
    /\ pc = "Waiting"
    /\ ~not_yet_open
    /\ pc' = "Collecting"
    /\ UNCHANGED <<now, Config, Locals, History>>

\* _collect_slots: the GET, the parse, the filters and the emptiness test.
collect_slots ==
    /\ pc = "Collecting"
    /\ \E status_code \in StatusCodes, document \in Documents(booking_date) :
        LET filtered_slots ==
                collected(document, include_paid_lighting_slots, exclude_one_hour_slots)
        IN  /\ fetches' = fetches + 1
            /\ http_status' = status_code
            /\ IF from_status_code(status_code) # "OK"
               THEN /\ pc' = "TransportFailure"
                    /\ UNCHANGED <<response, slots>>
               ELSE /\ response' = document
                    /\ IF none_left(filtered_slots)
                       THEN pc' = "NoSlotsAvailable" /\ UNCHANGED slots
                       ELSE pc' = "Ranking" /\ slots' = filtered_slots
    /\ UNCHANGED <<now, Config, ranked_slots, confirmation, ranking, attempts,
                   auths, constructed_on, slept>>

\* ranked_slots = self._rank_slots(slots)
rank ==
    /\ pc = "Ranking"
    /\ ranked_slots' = rank_slots(slots, target_start_time)
    /\ ranking' = ranked_slots'
    /\ pc' = "Attempting"
    /\ UNCHANGED <<now, Config, response, slots, confirmation, attempts, auths,
                   fetches, http_status, constructed_on, slept>>

\* One evaluation of the while condition of book(), with the loop body or the
\* statements after the loop that follow from it.  AttemptError is where the
\* flow would be if an exception of the attempt left request_booking.
attempt ==
    /\ pc = "Attempting"
    /\ \E outcome \in PaymentOutcomes :
        LET slot == first_candidate(ranked_slots)
            result == request_booking(slot, outcome)
            charged == authorizes(slot, target_start_time, target_end_time)
            exception == raised(slot, target_start_time, target_end_time, outcome)
            rest == pop_first(ranked_slots)
        IN  /\ confirmation' = result
            /\ attempts' = Append(attempts, [slot |-> slot, result |-> result])
            /\ auths' = IF charged
                        THEN Append(auths, [slot |-> slot, result |-> outcome])
                        ELSE auths
            /\ IF exception # "none" /\ ~caught(exception)
               THEN /\ ranked_slots' = ranked_slots
                    /\ pc' = "AttemptError"
               ELSE IF keeps_trying(result)
               THEN /\ ranked_slots' = rest
                    /\ pc' = IF exhausted(rest) THEN "BookingFailed" ELSE "Attempting"
               ELSE /\ ranked_slots' = ranked_slots
                    /\ pc' = "Confirmed"
    /\ UNCHANGED <<now, Config, response, slots, ranking, fetches, http_status,
                   constructed_on, slept>>

Next ==
    \/ Tick
    \/ post_init
    \/ book
    \/ wait_sleep
    \/ wait_return
    \/ collect_slots
    \/ rank
    \/ attempt

Spec == Init /\ [][Next]_vars

\* The steps of book(): the gate, the collection, the ranking, the attempts.
Flow == wait_sleep \/ wait_return \/ collect_slots \/ rank \/ attempt

\* The clock keeps advancing, and book(), once called, keeps running: it is
\* one sequential flow whose calls all return.
FairSpec == Spec /\ WF_vars(Tick) /\ WF_vars(Flow)

TypeOK ==
    /\ pc \in PcValues
    /\ now \in Nat
    /\ fetches \in 0..1
    /\ slept \in BOOLEAN
    /\ Len(slots) <= MaxSessions + 1
    /\ Len(attempts) <= MaxSessions + 1

-----------------------------------------------------------------------------
(* The Booking Attempt Loop.                                               *)

Slots(seq) == {seq[i].slot : i \in 1..Len(seq)}

\* C1: the i-th attempt of a cycle is made on the i-th element of the ranked
\* list, no candidate is attempted twice, and no candidate gets more than one
\* payment authorization (and only a candidate that was attempted gets one).
TriesInRankedOrder ==
    /\ Len(attempts) <= Len(ranking)
    /\ \A i \in 1..Len(attempts) : attempts[i].slot = ranking[i]
    /\ \A i, j \in 1..Len(attempts) : attempts[i].slot = attempts[j].slot => i = j
    /\ \A i, j \in 1..Len(auths) : auths[i].slot = auths[j].slot => i = j
    /\ Slots(auths) \subseteq Slots(attempts)

\* C1 happens: a second candidate was attempted after the first was dropped,
\* and both were charged.
TriedTwoInOrder == Len(attempts) = 2 /\ Len(auths) = 2

\* C2: an attempt that succeeds is the last one: the cycle is then Confirmed,
\* the confirmation is the one of that candidate, every candidate ranked
\* before it was attempted once and rejected, and no candidate ranked after
\* it is attempted or charged.
StopsOnFirstSuccess ==
    /\ \A i \in 1..Len(attempts) :
        attempts[i].result # None =>
            /\ i = Len(attempts)
            /\ pc = "Confirmed"
            /\ confirmation = attempts[i].result
            /\ confirmation[1].court_number = ranking[i].court_number
            /\ confirmation[1].booking_time = ranking[i].start_time
    /\ pc = "Confirmed" =>
        LET k == Len(attempts)
        IN  /\ k >= 1
            /\ attempts[k].result # None
            /\ \A i \in 1..(k - 1) :
                attempts[i].slot = ranking[i] /\ attempts[i].result = None
            /\ \A j \in (k + 1)..Len(ranking) :
                ranking[j] \notin Slots(attempts) \cup Slots(auths)

\* C2 happens: of three candidates the first failed the window test, the
\* second was declined and the third was confirmed.
ConfirmedThirdOfThree ==
    /\ pc = "Confirmed" /\ Len(attempts) = 3
    /\ ~is_available_for_times(attempts[1].slot, target_start_time, target_end_time)
    /\ Len(auths) >= 1 /\ auths[1].slot = attempts[2].slot
    /\ auths[1].result = "Declined"

\* C3: the cycle ends in BookingFailed exactly when every one of the N >= 1
\* ranked candidates has been attempted, once each and in order, and
\* rejected; no confirmation exists then.
ExhaustionFails ==
    LET all_rejected ==
            /\ ranking # <<>>
            /\ Len(attempts) = Len(ranking)
            /\ \A i \in 1..Len(attempts) :
                attempts[i].slot = ranking[i] /\ attempts[i].result = None
    IN  /\ pc = "BookingFailed" => all_rejected /\ confirmation = None
        /\ all_rejected => pc = "BookingFailed"

\* C3 happens: two candidates, both rejected.
FailedAfterAll == pc = "BookingFailed" /\ Len(attempts) >= 2

-----------------------------------------------------------------------------
(* The horizon.                                                            *)

\* C4: the step that leaves New rejects the request (InvalidRequest) if the
\* booking date is later than today + 14 days and accepts it otherwise; a
\* rejected request stays rejected and has fetched nothing, waited for
\* nothing and attempted nothing.
HorizonChecked ==
    [][/\ (pc = "New" /\ pc' # "New") =>
            /\ booking_date > today + 14 => pc' = "InvalidRequest"
            /\ booking_date <= today + 14 => pc' = "Constructed"
       /\ pc' = "InvalidRequest" =>
            /\ fetches' = 0 /\ ~slept' /\ response' = <<>>
            /\ attempts' = <<>> /\ auths' = <<>> /\ confirmation' = None
       /\ pc = "InvalidRequest" => pc' = "InvalidRequest"]_vars

\* C4 happens: a request for the 15th day from today was rejected.
RejectedBeyondHorizon ==
    pc = "InvalidRequest" /\ today = 0 /\ booking_date = 15

-----------------------------------------------------------------------------
(* Ranking.                                                                *)

\* C5: in the ranked list a slot that is strictly closer to the target start
\* time precedes every slot that is farther from it, whatever their durations.
CloserRanksFirst ==
    \A i, j \in 1..Len(ranking) :
        distance_from_target_time(ranking[i], target_start_time)
            < distance_from_target_time(ranking[j], target_start_time)
        => i < j

-----------------------------------------------------------------------------
(* Collection: the catalog, the filters, the emptiness test.               *)

Range(seq) == {seq[i] : i \in 1..Len(seq)}

\* The flow is past a successful fetch.
PostCollect ==
    {"NoSlotsAvailable", "Ranking", "Attempting", "Confirmed", "BookingFailed"}

\* The slots of the fetched document.
Catalog == Range(get_slots(response))

\* The open slots that the lighting toggle admits.
LightingAdmits(c) == include_paid_lighting_slots \/ c.lighting_cost = 0

\* The open slots that the duration toggle admits.
DurationAdmits(c) == ~exclude_one_hour_slots \/ duration(c) >= 2

\* C6: without includePaidLightingSlots no candidate has a lighting cost other
\* than 0 and every open slot with lighting cost 0 that passes the duration
\* filter is a candidate; with it, no open slot that passes the duration
\* filter is missing from the candidates.
LightingFilter ==
    pc \in PostCollect =>
        LET offered == {c \in Catalog : c.is_open /\ DurationAdmits(c)}
        IN  IF include_paid_lighting_slots
            THEN offered \subseteq Range(slots)
            ELSE /\ \A s \in Range(slots) : s.lighting_cost = 0
                 /\ {c \in offered : c.lighting_cost = 0} \subseteq Range(slots)

\* C6 happens: an open double slot with paid lighting was offered and removed,
\* and a candidate remained.
LitSlotRemoved ==
    /\ pc = "Ranking"
    /\ ~include_paid_lighting_slots
    /\ \E c \in Catalog : c.is_open /\ c.lighting_cost # 0 /\ duration(c) >= 2

\* The document's entry of a slot has no capacity left.
Closed(s) ==
    \E i \in 1..Len(response) :
        response[i].Number + 1 = s.court_number /\ response[i].Session.Capacity = 0

\* C7: no slot whose session has Capacity = 0 is a candidate, is ranked, is
\* attempted, is charged or is confirmed.
ClosedNeverCandidate ==
    /\ \A s \in Range(slots) \cup Range(ranking) \cup Range(ranked_slots)
                \cup Slots(attempts) \cup Slots(auths) : ~Closed(s)
    /\ confirmation # None => ~Closed(confirmation[1])

\* C7 happens: with both filters off, a document with a closed session led
\* to a confirmation.
ConfirmedBesideClosed ==
    /\ pc = "Confirmed"
    /\ include_paid_lighting_slots /\ ~exclude_one_hour_slots
    /\ \E c \in Catalog : ~c.is_open

\* C8: with excludeSingleHourSlots every candidate lasts two hours or more,
\* whatever the lighting toggle; without it every open slot that the lighting
\* toggle admits is a candidate.
DurationFilter ==
    pc \in PostCollect =>
        LET offered == {c \in Catalog : c.is_open /\ LightingAdmits(c)}
        IN  IF exclude_one_hour_slots
            THEN \A s \in Range(slots) : duration(s) >= 2
            ELSE offered \subseteq Range(slots)

\* C8 happens: an open one-hour slot was offered and removed while paid
\* lighting was allowed, and a candidate remained.
ShortSlotRemoved ==
    /\ pc = "Ranking"
    /\ exclude_one_hour_slots /\ include_paid_lighting_slots
    /\ \E c \in Catalog : c.is_open /\ duration(c) < 2

\* The slots of the document that are open and pass the filters in force.
Survivors == {c \in Catalog : c.is_open /\ LightingAdmits(c) /\ DurationAdmits(c)}

\* C9: after a successful fetch the cycle is in NoSlotsAvailable exactly when
\* no slot survives the filters, and then nothing was ranked, attempted or
\* charged and no confirmation exists.
EmptyIsFatal ==
    /\ pc \in PostCollect => (pc = "NoSlotsAvailable" <=> Survivors = {})
    /\ pc = "NoSlotsAvailable" =>
        /\ slots = <<>> /\ ranking = <<>> /\ ranked_slots = <<>>
        /\ attempts = <<>> /\ auths = <<>> /\ confirmation = None

\* C9 happens: a document with open slots, all of them filtered out.
AllFilteredOut ==
    pc = "NoSlotsAvailable" /\ \E c \in Catalog : c.is_open

-----------------------------------------------------------------------------
(* The Opening-Time Gate.                                                  *)

\* 09:00 of the day 14 days before the booking date, in hours.
OpeningInstant == (booking_date - 14) * 24 + 9

\* C10: the flow is past the gate, has fetched, has attempted or has charged
\* only when now >= openingInstant.
GateNeverEarly ==
    \/ /\ pc \in {"New", "InvalidRequest", "Constructed", "Waiting"}
       /\ fetches = 0 /\ attempts = <<>> /\ auths = <<>>
    \/ now >= OpeningInstant

\* C10 happens: the gate slept, then the fetch and an authorization followed.
WaitedThenCharged == slept /\ fetches = 1 /\ auths # <<>>

\* C11: a gate that finds now >= openingInstant at its first evaluation (it is
\* Waiting and has not slept) takes one step only, its return: the flow goes
\* on to the collection at the same instant and no sleep was performed.
OpenGateReturnsAtOnce ==
    [][(pc = "Waiting" /\ ~slept /\ now >= OpeningInstant) =>
            (pc' = "Collecting" /\ ~slept' /\ now' = now)]_vars

\* C11 happens: book() was called after the opening instant, and the flow
\* has fetched without a sleep.
PassedOpenGate == ~slept /\ fetches = 1 /\ now > OpeningInstant

-----------------------------------------------------------------------------
(* The attempt on one candidate.                                           *)

\* The requested interval does not fit in the window of the slot.
WindowMismatch(s) ==
    target_start_time < s.start_time \/ target_end_time > s.end_time

\* What the payment collaborator answered for the slot, if it was asked.
Answers(s) == {auths[k].result : k \in {k \in 1..Len(auths) : auths[k].slot = s}}

\* C12: an attempt on a candidate whose window does not contain the requested
\* interval returns no confirmation, no payment authorization is issued for
\* that candidate, and the loop goes on with the next candidate of the
\* ranked list (or, after the last candidate, ends in BookingFailed).
WindowMismatchSkips ==
    \A i \in 1..Len(attempts) :
        LET s == attempts[i].slot
        IN  WindowMismatch(s) =>
                /\ attempts[i].result = None
                /\ Answers(s) = {}
                /\ confirmation # None => confirmation[1].court_number # s.court_number
                /\ IF i = Len(ranking) THEN pc = "BookingFailed"
                   ELSE IF i = Len(attempts)
                        THEN pc = "Attempting" /\ ranked_slots[1] = ranking[i + 1]
                        ELSE attempts[i + 1].slot = ranking[i + 1]

\* C12 happens: the first candidate, which has a price, failed the window
\* test, and the second candidate was attempted and charged.
SkippedPaidMismatch ==
    /\ Len(attempts) = 2 /\ Len(auths) = 1
    /\ WindowMismatch(attempts[1].slot) /\ attempts[1].slot.cost > 0
    /\ auths[1].slot = attempts[2].slot

\* C13: an attempt returns a confirmation only if the window contains the
\* requested interval and, for a candidate with a price, the payment
\* collaborator answered Ok; a free candidate whose window fits is confirmed
\* and no authorization is issued for it; an attempt whose authorization was
\* declined or raised returns no confirmation.
CommitNeedsWindowAndPayment ==
    \A i \in 1..Len(attempts) :
        LET s == attempts[i].slot
        IN  /\ attempts[i].result # None =>
                ~WindowMismatch(s) /\ (s.cost > 0 => Answers(s) = {"OK"})
            /\ (~WindowMismatch(s) /\ s.cost = 0) =>
                attempts[i].result # None /\ Answers(s) = {}
            /\ Answers(s) \cap {"Declined", "raise"} # {} => attempts[i].result = None

\* C13 happens: the payment of the first candidate raised, and the second
\* candidate, a free one, was confirmed with no authorization.
FreeCommitAfterPaymentError ==
    /\ pc = "Confirmed" /\ Len(attempts) = 2 /\ Len(auths) = 1
    /\ auths[1].slot = attempts[1].slot /\ auths[1].result = "raise"
    /\ attempts[2].slot.cost = 0

\* C14: an authorization that answered Ok is the last authorization of the
\* cycle, the cycle is Confirmed, and the confirmation is the one of the
\* candidate that was charged, which is the last one attempted; so at most
\* one authorization of a cycle answers Ok.
AuthorizedIsConfirmed ==
    /\ \A k \in 1..Len(auths) :
        auths[k].result = "OK" =>
            /\ k = Len(auths)
            /\ pc = "Confirmed"
            /\ attempts[Len(attempts)].slot = auths[k].slot
            /\ confirmation = Some(BookingConfirmation(auths[k].slot))
    /\ Cardinality({k \in 1..Len(auths) : auths[k].result = "OK"}) <= 1

\* C14 happens: a first authorization was declined, a second one answered Ok
\* and the cycle is Confirmed.
ChargedOnceAfterDecline ==
    /\ pc = "Confirmed" /\ Len(auths) = 2
    /\ auths[1].result = "Declined" /\ auths[2].result = "OK"

-----------------------------------------------------------------------------
(* The Slot Catalog Builder.                                               *)

\* A session entry with every field present and both offsets within the day.
WellFormed(entry) ==
    /\ entry.Session.HasKeys
    /\ entry.Session.StartTime \in 0..1439
    /\ entry.Session.EndTime \in 0..1439

\* The well-formed entries of the fetched document, in document order.
WellFormedEntries == SelectSeq(response, WellFormed)

\* The flow has just collected: the document is fetched and parsed, and it
\* does not change afterwards.
JustCollected == {"NoSlotsAvailable", "Ranking"}

HourOf(m, t) == t % 60 = 0 /\ t <= m /\ m < t + 60

\* C19: the slot of a well-formed entry has the entry's Number plus one as its
\* court, starts and ends at the beginning of the hours in which StartTime
\* and EndTime fall, and is open exactly when Capacity is not 0; the entry
\* with StartTime 600, EndTime 720 and Capacity 1 gives 10:00, 12:00, a
\* duration of 2 hours, a double slot, open.
CatalogMapping ==
    pc \in JustCollected =>
        LET built == get_slots(response)
        IN  \A k \in 1..Len(built) :
                LET session == WellFormedEntries[k].Session
                IN  /\ k <= Len(WellFormedEntries)
                    /\ built[k].court_number = WellFormedEntries[k].Number + 1
                    /\ HourOf(session.StartTime, built[k].start_time)
                    /\ HourOf(session.EndTime, built[k].end_time)
                    /\ built[k].is_open <=> session.Capacity # 0
                    /\ (session.StartTime = 600 /\ session.EndTime = 720
                            /\ session.Capacity = 1) =>
                        /\ built[k].start_time = 10 * 60
                        /\ built[k].end_time = 12 * 60
                        /\ duration(built[k]) = 2
                        /\ is_double_slot(built[k])
                        /\ built[k].is_open

\* C19 happens: the session from 10:45 to 12:45 was confirmed as a booking
\* at 10:00 for two hours.
ConfirmedTruncatedSlot ==
    /\ pc = "Confirmed"
    /\ response[confirmation[1].court_number].Session.StartTime = 645
    /\ confirmation[1].booking_time = 600
    /\ confirmation[1].length_in_hours = 2

\* C20: every slot of the catalog, and every slot that is a candidate, is
\* ranked or is attempted, starts before it ends and has a court number of
\* 1 or more.
SlotInvariant ==
    \A s \in Catalog \cup Range(slots) \cup Range(ranking) \cup Slots(attempts) :
        s.start_time < s.end_time /\ s.court_number >= 1

-----------------------------------------------------------------------------
(* Errors and outcomes.                                                    *)

\* C16: at most one fetch is issued in a cycle; once it is answered, the
\* cycle is in TransportFailure exactly when the status code is not 2xx,
\* and then no document was kept and nothing was collected, ranked,
\* attempted, charged or confirmed.
TransportFailureIsFatal ==
    /\ fetches \in 0..1
    /\ fetches = 0 => pc # "TransportFailure"
    /\ fetches = 1 => (pc = "TransportFailure" <=> http_status \div 100 # 2)
    /\ pc = "TransportFailure" =>
        /\ response = <<>> /\ slots = <<>> /\ ranking = <<>>
        /\ attempts = <<>> /\ auths = <<>> /\ confirmation = None

\* C16 happens: after a wait at the gate the fetch was answered with a
\* redirection.
FailedOnRedirect == pc = "TransportFailure" /\ http_status = 302 /\ slept

\* C17: no exception of an attempt leaves the loop; a cycle is Confirmed
\* exactly when it holds a confirmation, and holds none in TransportFailure,
\* NoSlotsAvailable or BookingFailed; after a rejected attempt with an untried
\* candidate left the cycle is still attempting, and BookingFailed comes only
\* with the rejection of the last candidate.
OneOutcomePerCycle ==
    /\ pc # "AttemptError"
    /\ pc = "Confirmed" <=> confirmation # None
    /\ pc \in {"TransportFailure", "NoSlotsAvailable", "BookingFailed"} =>
        confirmation = None
    /\ (attempts # <<>> /\ attempts[Len(attempts)].result = None) =>
        IF Len(attempts) < Len(ranking)
        THEN pc = "Attempting" /\ ranked_slots[1] = ranking[Len(attempts) + 1]
        ELSE pc = "BookingFailed"

\* C17 happens: a window mismatch and an exception of the payment collaborator
\* were both absorbed, and a third candidate is about to be attempted.
RejectionsAbsorbed ==
    /\ pc = "Attempting" /\ Len(attempts) = 2
    /\ WindowMismatch(attempts[1].slot)
    /\ Answers(attempts[2].slot) = {"raise"}

\* C18: the confirmation of a Confirmed cycle has the location, the court
\* number, the date and the start time of the slot that was attempted last,
\* and a length of the slot's whole hours, or 2 if the slot is longer.
ConfirmationCarriesSlot ==
    pc = "Confirmed" =>
        LET s == attempts[Len(attempts)].slot
            c == confirmation[1]
            hours == (s.end_time - s.start_time) \div 60
        IN  /\ c.location = s.location
            /\ c.court_number = s.court_number
            /\ c.booking_date = s.date
            /\ c.booking_time = s.start_time
            /\ c.length_in_hours = IF hours < 2 THEN hours ELSE 2
            /\ c.length_in_hours <= 2

\* C18 happens: a slot of three hours was confirmed for two hours.
ConfirmedThreeHourSlot ==
    /\ pc = "Confirmed"
    /\ attempts[Len(attempts)].slot.end_time
            - attempts[Len(attempts)].slot.start_time = 180
    /\ confirmation[1].length_in_hours = 2

-----------------------------------------------------------------------------
(* Properties of the ranking.                                              *)

\* The list has been ranked.
Ranked == {"Attempting", "Confirmed", "BookingFailed"}

\* The ranking was just made: no attempt yet.
JustRanked == pc = "Attempting" /\ attempts = <<>>

\* The place of x in seq.
PlaceIn(seq, x) == CHOOSE p \in 1..Len(seq) : seq[p] = x

\* C21: two candidates with the same distance from the target start time and
\* the same duration stand in the ranked list in the order they have in the
\* filtered list, and ranking the filtered list again gives the ranked list
\* that was made.
RankingIsStable ==
    pc \in Ranked =>
        /\ \A i, j \in 1..Len(slots) :
            ( /\ i < j
              /\ distance_from_target_time(slots[i], target_start_time)
                    = distance_from_target_time(slots[j], target_start_time)
              /\ duration(slots[i]) = duration(slots[j]) )
            => /\ slots[i] \in Range(ranking) /\ slots[j] \in Range(ranking)
               /\ PlaceIn(ranking, slots[i]) < PlaceIn(ranking, slots[j])
        /\ JustRanked => rank_slots(slots, target_start_time) = ranking

\* C21 happens: three candidates were ranked, the first two of the filtered
\* list tie on both keys, and the third was ranked before them.
TiedBehindThird ==
    /\ JustRanked /\ Len(slots) = 3
    /\ distance_from_target_time(slots[1], target_start_time)
            = distance_from_target_time(slots[2], target_start_time)
    /\ duration(slots[1]) = duration(slots[2])
    /\ ranking = <<slots[3], slots[1], slots[2]>>

\* C24: the ranked list has the length of the filtered list, holds every
\* filtered slot and holds no slot twice; and the slots attempted so far
\* together with those still in the list are the filtered slots.
RankingIsPermutation ==
    pc \in Ranked =>
        /\ Len(ranking) = Len(slots)
        /\ Range(ranking) = Range(slots)
        /\ \A i, j \in 1..Len(ranking) : ranking[i] = ranking[j] => i = j
        /\ Slots(attempts) \cup Range(ranked_slots) = Range(slots)

\* C24 happens: with one-hour slots admitted, a one-hour slot and a double
\* slot were ranked in the reverse of their filtered order.
RankedShortBehindDouble ==
    /\ JustRanked /\ Len(slots) = 2
    /\ duration(slots[1]) = 1 /\ duration(slots[2]) = 2
    /\ ranking = <<slots[2], slots[1]>>

\* C23: from the collection on, the filtered list holds open slots of the
\* catalog as the builder made them, in the order of the document and none
\* of them twice; and no later step, the ranking and the attempts included,
\* changes the filtered list or the fetched document.
FilterIsPure ==
    /\ [](pc \in PostCollect =>
            /\ \A i, j \in 1..Len(slots) :
                i < j => slots[i].court_number < slots[j].court_number
            /\ \A s \in Range(slots) :
                /\ s.court_number \in 1..Len(response)
                /\ s = BookingSlot(response[s.court_number])
                /\ response[s.court_number].Session.Capacity # 0)
    /\ [][(pc \in PostCollect) => (slots' = slots /\ response' = response)]_vars

\* C23 happens: with both filters in force two slots were kept, they were
\* ranked in the reverse order and both rejected, and the filtered list is
\* as it was.
FilteredListKept ==
    /\ pc = "BookingFailed"
    /\ ~include_paid_lighting_slots /\ exclude_one_hour_slots
    /\ Len(slots) = 2 /\ ranking = <<slots[2], slots[1]>>

-----------------------------------------------------------------------------
(* The horizon and the gate together.                                      *)

\* C25: the opening date of an accepted request, booking_date - 14, is not
\* later than the day on which __post_init__ accepted it; and a gate that is
\* entered at or after 09:00 of that day returns at once, with no sleep.
GateOpenFromNineOnConstructionDay ==
    /\ [](pc \notin {"New", "InvalidRequest"} => booking_date - 14 <= constructed_on)
    /\ [][(pc = "Waiting" /\ ~slept /\ now >= constructed_on * 24 + 9) =>
            (pc' = "Collecting" /\ ~slept')]_vars

\* C25 happens: a request for day 15 was accepted on day 1, and the flow has
\* fetched without a sleep at the gate.
AcceptedOnOpeningDay ==
    booking_date = 15 /\ constructed_on = 1 /\ ~slept /\ fetches = 1

-----------------------------------------------------------------------------
(* Termination.                                                            *)

\* The ways in which book() ends.
Outcomes == {"TransportFailure", "NoSlotsAvailable", "Confirmed", "BookingFailed"}

\* C22: book(), once it is in the gate, ends in a confirmation or in a fatal
\* failure; it never makes more attempts than there are ranked candidates nor
\* more authorizations than attempts; and a step attempts at most one
\* candidate, the head of the list, and issues at most one authorization,
\* for that candidate.
BookTerminates ==
    /\ [](Len(attempts) <= Len(ranking) /\ Len(auths) <= Len(attempts))
    /\ [][/\ Len(attempts') <= Len(attempts) + 1
          /\ Len(auths') - Len(auths) <= Len(attempts') - Len(attempts)
          /\ attempts' # attempts =>
                attempts'[Len(attempts')].slot = ranked_slots[1]
          /\ auths' # auths =>
                auths'[Len(auths')].slot = ranked_slots[1]]_vars
    /\ (pc = "Waiting") ~> (pc \in Outcomes)

\* C22 happens: after a sleep at the gate, three candidates were attempted
\* and the third was confirmed.
EndedAfterWaitAndThree ==
    slept /\ pc = "Confirmed" /\ Len(ranking) = 3 /\ Len(attempts) = 3

====
